---- MODULE Spec2Model ----
(***************************************************************************)
(* A model of Skater's gradient based relevance scorers (LRP and           *)
(* IntegratedGradients, relevance_scorer.py) and of its text relevance     *)
(* visualizer (build_explainer, generate_word_cloud, show_in_notebook,     *)
(* text_relevance_visualizer.py).                                          *)
(*                                                                         *)
(* Floating point numbers are modelled as exact rationals <<num, den>>     *)
(* (den > 0, lowest terms); strings as sequences of one-character strings. *)
(***************************************************************************)
EXTENDS Integers, Sequences, FiniteSets, TLC

VARIABLES
    \* ---- LRP (relevance_scorer.py) ----
    eps,            \* the class attribute LRP.eps
    attempts,       \* the calls of LRP(...) made so far, each with its outcome
    instances,      \* indices of the attempts that returned an LRP object
    last_call,      \* the last call of non_linear_grad through an instance
    \* ---- IntegratedGradients (relevance_scorer.py) ----
    ig,             \* the IntegratedGradients object and the locals of run()
    \* ---- build_explainer (text_relevance_visualizer.py) ----
    ex,             \* the arguments and locals of build_explainer
    \* ---- generate_word_cloud (text_relevance_visualizer.py) ----
    wcs,            \* the arguments and locals of generate_word_cloud
    \* ---- show_in_notebook (text_relevance_visualizer.py) ----
    nb              \* the argument and outcome of show_in_notebook

vars == <<eps, attempts, instances, last_call, ig, ex, wcs, nb>>

\* Python's None for an optional number or array: the empty tuple; a present
\* value v is <<v>> (Some(v)).
None == <<>>
Some(v) == <<v>>

(***************************************************************************)
(* Bounds of the model.                                                    *)
(***************************************************************************)
MaxAttempts == 3
MaxSteps == 3
MaxTextLen == 4
MaxCloudWords == 2

(***************************************************************************)
(* Exact rational arithmetic standing for the float arithmetic of numpy.   *)
(***************************************************************************)
Abs(n) == IF n < 0 THEN -n ELSE n

RECURSIVE GCD(_, _)
GCD(a, b) == IF b = 0 THEN a ELSE GCD(b, a % b)

\* n/d in lowest terms; a division by zero gives <<+-1, 0>> (inf) or <<0, 0>>
\* (nan), as float arithmetic does.
Rat(n, d) ==
    IF d = 0 THEN <<(IF n > 0 THEN 1 ELSE IF n < 0 THEN -1 ELSE 0), 0>>
    ELSE LET g == GCD(Abs(n), Abs(d))
             s == IF d < 0 THEN -1 ELSE 1
         IN  <<(s * n) \div g, (s * d) \div g>>

RatInt(n) == <<n, 1>>
RatAdd(p, q) == Rat(p[1] * q[2] + q[1] * p[2], p[2] * q[2])
RatSub(p, q) == Rat(p[1] * q[2] - q[1] * p[2], p[2] * q[2])
RatMul(p, q) == Rat(p[1] * q[1], p[2] * q[2])
RatDiv(p, q) == Rat(p[1] * q[2], p[2] * q[1])

\* The components at rest: nothing constructed, no call in progress.
IGIdle == [pc |-> "idle"]
ExIdle == [pc |-> "idle"]
WcIdle == [pc |-> "idle"]
NbIdle == [pc |-> "idle"]

(***************************************************************************)
(* LRP                                                                     *)
(***************************************************************************)
EpsilonValues == {-1, 0, 1, 2}
OpInValues == {-2, -1, 0, 1}
OpOutValues == {0, 1}
GradValues == {1, 2}

\* assert epsilon > 0.0, 'LRP epsilon must be > 0'
EpsilonAcceptedMut(epsilon) == epsilon >= 0
EpsilonAccepted(epsilon) == epsilon > 0

\* The value of LRP.eps after LRP.__init__(epsilon): the assignment follows
\* the assertion, so a rejected epsilon leaves the class attribute alone.
EpsAfterInitMut(old, epsilon) == Some(epsilon)
EpsAfterInit(old, epsilon) ==
    IF EpsilonAccepted(epsilon) THEN Some(epsilon) ELSE old

\* LRP.__init__
LRP_init(epsilon) ==
    /\ Len(attempts) < MaxAttempts
    /\ attempts' = Append(attempts,
                     [epsilon |-> epsilon,
                      outcome |-> IF EpsilonAccepted(epsilon)
                                  THEN "ok" ELSE "AssertionError"])
    /\ instances' = IF EpsilonAccepted(epsilon)
                    THEN instances \cup {Len(attempts) + 1}
                    ELSE instances
    /\ eps' = EpsAfterInit(eps, epsilon)
    /\ UNCHANGED <<last_call, ig, ex, wcs, nb>>

\* tf.where(op_in >= 0, ones, -ones), scaled by cls.eps
StabilizerEpsilon(e, op_in) == e * (IF op_in >= 0 THEN 1 ELSE -1)

\* LRP.non_linear_grad(op, grad) for a scalar operation: grad * op_out / op_in
\* after op_in += stabilizer_epsilon.
NonLinearGrad(e, op_in, op_out, grad) ==
    Rat(grad * op_out, op_in + StabilizerEpsilon(e, op_in))

\* A call of non_linear_grad through instance i (cls is LRP, whatever i is).
LRP_non_linear_grad(i, op_in, op_out, grad) ==
    /\ i \in instances
    /\ last_call' = [kind |-> "call", inst |-> i, op_in |-> op_in,
                     op_out |-> op_out, grad |-> grad,
                     after |-> Len(attempts), eps_read |-> eps,
                     result |-> NonLinearGrad(eps[1], op_in, op_out, grad)]
    /\ UNCHANGED <<eps, attempts, instances, ig, ex, wcs, nb>>

LRPInit ==
    /\ eps = None
    /\ attempts = <<>>
    /\ instances = {}
    /\ last_call = [kind |-> "none"]

LRPIdle == LRPInit

InitLRP ==
    /\ LRPInit
    /\ ig = IGIdle
    /\ ex = ExIdle
    /\ wcs = WcIdle
    /\ nb = NbIdle

NextLRP ==
    \/ \E epsilon \in EpsilonValues : LRP_init(epsilon)
    \/ \E i \in 1..MaxAttempts, op_in \in OpInValues, op_out \in OpOutValues,
          grad \in GradValues : LRP_non_linear_grad(i, op_in, op_out, grad)

SpecLRP == InitLRP /\ [][NextLRP]_vars

\* C1: constructing LRP with an epsilon <= 0 fails with the assertion error
\* and yields no instance; with an epsilon > 0 it succeeds, yields an
\* instance, and right after the construction LRP.eps is that epsilon.
C1_LRPConstruction ==
    \A k \in 1..Len(attempts) :
        LET a == attempts[k] IN
        /\ a.epsilon <= 0 => a.outcome = "AssertionError" /\ k \notin instances
        /\ a.epsilon > 0 =>
              /\ a.outcome = "ok"
              /\ k \in instances
              /\ k = Len(attempts) => eps = Some(a.epsilon)

C1_Witness ==
    /\ Len(attempts) >= 3
    /\ attempts[1].epsilon = 0 /\ attempts[1].outcome = "AssertionError"
    /\ attempts[2].epsilon < 0 /\ attempts[2].outcome = "AssertionError"
    /\ attempts[3].epsilon = 2 /\ attempts[3].outcome = "ok"
    /\ instances = {3}
    /\ eps = Some(2)

\* The epsilon of the most recent successful construction among the first n
\* attempts (None when there is none).
LastSuccessfulEps(n) ==
    LET S == {k \in 1..n : attempts[k].outcome = "ok"}
    IN  IF S = {} THEN None
        ELSE Some(attempts[CHOOSE k \in S : \A j \in S : j <= k].epsilon)

\* C2: the epsilon non_linear_grad uses, through any instance old or new, is
\* the epsilon of the most recent successful construction: a later instance
\* changes it for the earlier ones and a failed construction leaves it alone.
C2_SharedEpsilon ==
    /\ eps = LastSuccessfulEps(Len(attempts))
    /\ last_call.kind = "call" =>
          /\ last_call.eps_read = LastSuccessfulEps(last_call.after)
          /\ last_call.result =
                Rat(last_call.grad * last_call.op_out,
                    last_call.op_in
                      + (IF last_call.op_in >= 0 THEN 1 ELSE -1)
                        * LastSuccessfulEps(last_call.after)[1])

C2_Witness ==
    /\ Len(attempts) = 3
    /\ attempts[1].outcome = "ok" /\ attempts[1].epsilon = 1
    /\ attempts[2].outcome = "ok" /\ attempts[2].epsilon = 2
    /\ attempts[3].outcome = "AssertionError"
    /\ last_call.kind = "call" /\ last_call.inst = 1 /\ last_call.after = 3
    /\ last_call.eps_read = Some(2)

(***************************************************************************)
(* IntegratedGradients                                                     *)
(***************************************************************************)
\* Input samples xs, of shape (1, 2): the one row of the batch.
XsValues == {<<1, 2>>, <<2, -1>>, <<0, 3>>, <<-2, 0>>}
\* The baseline argument: None (the default) or an array of the same shape.
BaselineValues == {None, Some(<<0, 0>>), Some(<<1, 1>>), Some(<<2, -1>>)}
\* The differentiable models whose gradient the session evaluates.
ModelValues == {"linear", "quadratic", "cubic"}

\* Elementwise operations on arrays of rationals.
VecOfInts(v) == [i \in DOMAIN v |-> RatInt(v[i])]
VecAdd(u, v) == [i \in DOMAIN u |-> RatAdd(u[i], v[i])]
VecSub(u, v) == [i \in DOMAIN u |-> RatSub(u[i], v[i])]
VecMul(u, v) == [i \in DOMAIN u |-> RatMul(u[i], v[i])]
VecScale(u, a) == [i \in DOMAIN u |-> RatMul(u[i], a)]
VecDivScalar(u, a) == [i \in DOMAIN u |-> RatDiv(u[i], a)]

\* session_run(t_grad, z): the gradient of the model's output with respect to
\* its input, evaluated at z.
\*   linear:    F(z) = 3 z1 - z2          quadratic: F(z) = z1^2 + z1 z2
\*   cubic:     F(z) = z1^3 + z2
SessionRunGrad(model, z) ==
    CASE model = "linear" -> <<RatInt(3), RatInt(-1)>>
      [] model = "quadratic" ->
            <<RatAdd(RatMul(RatInt(2), z[1]), z[2]), z[1]>>
      [] model = "cubic" ->
            <<RatMul(RatInt(3), RatMul(z[1], z[1])), RatInt(1)>>

\* np.linspace(start, stop, num) for num >= 1: start + i * step with
\* step = (stop - start) / (num - 1), the last sample set to stop.
LinspaceMut(start, stop, num) ==
    [i \in 1..num |-> RatMul(RatInt(i - 1), Rat(1, num))]
Linspace(start, stop, num) ==
    IF num = 1 THEN <<start>>
    ELSE LET step == RatDiv(RatSub(stop, start), RatInt(num - 1))
         IN  [i \in 1..num |->
                IF i = num THEN stop
                ELSE RatAdd(start, RatMul(RatInt(i - 1), step))]

\* np.zeros((1,) + self.xs.shape[1:]) if baseline is None else baseline
BaselineOrZeros(xs, baseline) ==
    IF baseline = None THEN [i \in DOMAIN xs |-> 0] ELSE baseline[1]

\* IntegratedGradients.__init__
IG_init(model, xs, steps, baseline) ==
    /\ ig.pc = "idle"
    /\ ig' = [pc |-> "constructed", model |-> model, xs |-> xs,
              steps |-> steps, baseline |-> BaselineOrZeros(xs, baseline)]
    /\ UNCHANGED <<eps, attempts, instances, last_call, ex, wcs, nb>>

\* run(), up to the loop: t_grad, gradient = None, alpha_list.
IG_run_begin ==
    /\ ig.pc = "constructed"
    /\ ig' = [ig EXCEPT !.pc = "loop"] @@
             [alpha_list |-> Linspace(Rat(1, ig.steps), RatInt(1), ig.steps),
              k |-> 1, gradient |-> None, evals |-> <<>>]
    /\ UNCHANGED <<eps, attempts, instances, last_call, ex, wcs, nb>>

\* One iteration of `for alpha in alpha_list`.
IG_run_iter ==
    /\ ig.pc = "loop"
    /\ ig.k <= Len(ig.alpha_list)
    /\ LET alpha == ig.alpha_list[ig.k]
           xs_scaled == VecScale(VecSub(VecOfInts(ig.xs),
                                        VecOfInts(ig.baseline)), alpha)
           scores == SessionRunGrad(ig.model, xs_scaled)
       IN  ig' = [ig EXCEPT
                    !.k = @ + 1,
                    !.evals = Append(@, xs_scaled),
                    !.gradient = IF @ = None THEN Some(scores)
                                 ELSE Some(VecAdd(@[1], scores))]
    /\ UNCHANGED <<eps, attempts, instances, last_call, ex, wcs, nb>>

\* results = [(x - b) * (g / self.steps) ...]; return results[0]
IGResultMut(xs, baseline, gradient, steps) ==
    VecMul(VecSub(VecOfInts(xs), VecOfInts(baseline)), gradient)
IGResult(xs, baseline, gradient, steps) ==
    VecMul(VecSub(VecOfInts(xs), VecOfInts(baseline)),
           VecDivScalar(gradient, RatInt(steps)))

IG_run_return ==
    /\ ig.pc = "loop"
    /\ ig.k > Len(ig.alpha_list)
    /\ ig' = [ig EXCEPT !.pc = "done"] @@
             [result |-> IGResult(ig.xs, ig.baseline, ig.gradient[1], ig.steps)]
    /\ UNCHANGED <<eps, attempts, instances, last_call, ex, wcs, nb>>

InitIG ==
    /\ LRPIdle
    /\ ig = IGIdle
    /\ ex = ExIdle
    /\ wcs = WcIdle
    /\ nb = NbIdle

NextIG ==
    \/ \E model \in ModelValues, xs \in XsValues, steps \in 1..MaxSteps,
          baseline \in BaselineValues : IG_init(model, xs, steps, baseline)
    \/ IG_run_begin
    \/ IG_run_iter
    \/ IG_run_return

SpecIG == InitIG /\ [][NextIG]_vars

IGRunning == ig.pc \in {"loop", "done"}

\* The k-th point of the path the claim describes: (input - baseline) * k/steps.
IGScaledSample(k) ==
    [i \in DOMAIN ig.xs |-> Rat((ig.xs[i] - ig.baseline[i]) * k, ig.steps)]

\* The sum of the gradients at the first k such points.
RECURSIVE IGGradientSum(_)
IGGradientSum(k) ==
    IF k = 1 THEN SessionRunGrad(ig.model, IGScaledSample(1))
    ELSE VecAdd(IGGradientSum(k - 1),
                SessionRunGrad(ig.model, IGScaledSample(k)))

\* C3: run evaluates the gradient exactly `steps` times, at the samples
\* (input - baseline) * k/steps for k = 1..steps in ascending order (fraction 0
\* never used, the last fraction exactly 1), and returns
\* (input - baseline) * (sum of those gradients / steps); with steps = 1 and
\* a zero baseline that is input * gradient_at(input).
C3_RiemannSum ==
    IGRunning =>
      /\ Len(ig.alpha_list) = ig.steps
      /\ \A k \in 1..ig.steps : ig.alpha_list[k] = Rat(k, ig.steps)
      /\ Len(ig.evals) = ig.k - 1
      /\ Len(ig.evals) <= ig.steps
      /\ \A k \in 1..Len(ig.evals) : ig.evals[k] = IGScaledSample(k)
      /\ ig.pc = "done" =>
            /\ Len(ig.evals) = ig.steps
            /\ \A i \in DOMAIN ig.xs :
                  ig.result[i] =
                    Rat((ig.xs[i] - ig.baseline[i]) * IGGradientSum(ig.steps)[i][1],
                        IGGradientSum(ig.steps)[i][2] * ig.steps)
            /\ (ig.steps = 1 /\ \A i \in DOMAIN ig.xs : ig.baseline[i] = 0) =>
                  ig.result = VecMul(VecOfInts(ig.xs),
                                     SessionRunGrad(ig.model, VecOfInts(ig.xs)))

C3_Witness ==
    /\ ig.pc = "done"
    /\ ig.steps = 3
    /\ ig.model = "quadratic"
    /\ ig.xs = <<1, 2>>
    /\ ig.baseline = <<2, -1>>
    /\ Len(ig.evals) = 3
    /\ ig.evals[1] = <<Rat(-1, 3), RatInt(1)>>
    /\ ig.result = <<Rat(-2, 3), RatInt(-2)>>

\* p lies on the straight line through the baseline and the input:
\* p - baseline is a multiple of input - baseline.
OnLineFromBaselineToInput(p) ==
    LET d == VecSub(VecOfInts(ig.xs), VecOfInts(ig.baseline))
        q == VecSub(p, VecOfInts(ig.baseline))
    IN  /\ \A i, j \in DOMAIN d : RatMul(q[i], d[j]) = RatMul(q[j], d[i])
        /\ (\A i \in DOMAIN d : d[i] = RatInt(0)) =>
              (\A i \in DOMAIN q : q[i] = RatInt(0))

\* C4: for every baseline, every point at which run evaluates the gradient
\* lies on the straight line from the baseline to the input, and the last
\* evaluation point (fraction 1.0) is the input itself.
C4_PathFromBaseline ==
    IGRunning =>
      \A k \in 1..Len(ig.evals) :
        /\ OnLineFromBaselineToInput(ig.evals[k])
        /\ k = ig.steps => ig.evals[k] = VecOfInts(ig.xs)

(***************************************************************************)
(* Python string primitives, on sequences of characters                    *)
(***************************************************************************)
\* s[start:stop] with Python's treatment of negative and oversized indices.
PySlice(s, start, stop) ==
    LET n == Len(s)
        clamp(i) == IF i < 0 THEN (IF n + i < 0 THEN 0 ELSE n + i)
                    ELSE (IF i > n THEN n ELSE i)
        lo == clamp(start)
        hi == clamp(stop)
    IN  IF lo >= hi THEN <<>> ELSE SubSeq(s, lo + 1, hi)

\* w occurs in s at the 0-based index i.
OccursAt(s, w, i) ==
    /\ i + Len(w) <= Len(s)
    /\ \A j \in 1..Len(w) : s[i + j] = w[j]

\* s.find(w): the lowest 0-based index at which w occurs in s, -1 if none.
PyFind(s, w) ==
    LET hits == {i \in 0..Len(s) : OccursAt(s, w, i)}
    IN  IF hits = {} THEN -1
        ELSE CHOOSE i \in hits : \A j \in hits : i <= j

(***************************************************************************)
(* build_explainer                                                         *)
(***************************************************************************)
TextChars == {"a", "b", " "}

\* All texts of at most n characters.
RECURSIVE TextsUpTo(_)
TextsUpTo(n) ==
    IF n = 0 THEN {<<>>}
    ELSE LET shorter == TextsUpTo(n - 1)
         IN  shorter \cup {Append(t, c) : t \in {u \in shorter : Len(u) = n - 1},
                                           c \in TextChars}

TextValues == TextsUpTo(MaxTextLen)
\* The words a weight mapping may list, and the weights (in tenths).
VocabularyWords == {<<"a">>, <<"b">>}
WeightValues == {-5, 0, 8}
\* feature_relevance_wts as a dictionary {word: score}.
FeatureWtsValues ==
    UNION {[ws -> WeightValues] : ws \in SUBSET VocabularyWords}
MetainfValues == {<<>>, <<"M">>}

\* The words of a text in order of appearance: its maximal runs of
\* non-blank characters.
RECURSIVE WordsOf(_, _)
WordsOf(text, current) ==
    IF text = <<>> THEN (IF current = <<>> THEN <<>> ELSE <<current>>)
    ELSE IF Head(text) = " "
         THEN (IF current = <<>> THEN <<>> ELSE <<current>>)
              \o WordsOf(Tail(text), <<>>)
         ELSE WordsOf(Tail(text), Append(current, Head(text)))

\* relevance_wt_assigner(text, feature_relevance_wts): the (word, weight or
\* None) pairs of the words of the text, in the order they appear; a word the
\* mapping does not list gets None when out-of-vocabulary words are reported
\* (with_oov) and is left out otherwise.
RECURSIVE AssignWts(_, _, _)
AssignWts(words, wts, with_oov) ==
    IF words = <<>> THEN <<>>
    ELSE LET w == Head(words)
             rest == AssignWts(Tail(words), wts, with_oov)
         IN  IF w \in DOMAIN wts THEN <<[word |-> w, wts |-> Some(wts[w])]>> \o rest
             ELSE IF with_oov THEN <<[word |-> w, wts |-> None]>> \o rest
             ELSE rest

relevance_wt_assigner(text, wts, with_oov) ==
    AssignWts(WordsOf(text, <<>>), wts, with_oov)

\* rgbac = (0.1, 0.1, 1.0), in tenths
OOVColor == [cmap |-> "fixed", at |-> <<1, 1, 10>>]
\* alpha = 0.2 if highlight_oov else 0.   (tenths)
OOVAlphaHighlighted == 2
OOVAlphaPlain == 0
\* alpha = 0.5 for in-dictionary words (tenths)
InDictAlpha == 5
\* norm = mpl.colors.Normalize(0., 1.), on tenths
NormVmin == 0
NormVmax == 10
Norm(v) == ((v - NormVmin) * 10) \div (NormVmax - NormVmin)
\* cmap_pos = get_cmap('Reds'), cmap_neg = get_cmap('Blues'): a colormap
\* sampled at an intensity.
CmapPos(x) == [cmap |-> "Reds", at |-> <<x>>]
CmapNeg(x) == [cmap |-> "Blues", at |-> <<x>>]

\* The pieces html_str is made of.
HeaderItem == [t |-> "header"]
FooterItem == [t |-> "footer"]
CharItems(s) == [i \in 1..Len(s) |-> [t |-> "char", c |-> s[i]]]
SpanItem(rgbac, alpha, word) ==
    [t |-> "span", rgbac |-> rgbac, alpha |-> alpha, word |-> word]

\* html_str = u'<body><div ...>'; html_str += '%s\n\n' % metainf if metainf
\* else html_str     (the conditional expression is the whole right-hand side)
Prologue(metainf) ==
    LET html_str == <<HeaderItem>>
    IN  html_str \o (IF metainf # <<>>
                     THEN CharItems(metainf \o <<"\n", "\n">>)
                     ELSE html_str)

\* rest_text[:rest_text.find(word)]
TextBefore(rest_text, word) == PySlice(rest_text, 0, PyFind(rest_text, word))
\* rest_text[rest_text.find(word) + len(word):]
TextAfterMut(rest_text, word) ==
    PySlice(rest_text, PyFind(rest_text, word), Len(rest_text))
TextAfter(rest_text, word) ==
    PySlice(rest_text, PyFind(rest_text, word) + Len(word), Len(rest_text))

\* The colour and opacity of a word: recomputed for a weighted word, left as
\* they are for a word whose weight is None.
ColorFor(rgbac, wts) ==
    IF wts # None
    THEN (IF wts[1] < 0 THEN CmapNeg(Norm(-wts[1])) ELSE CmapPos(Norm(wts[1])))
    ELSE rgbac
AlphaFor(alpha, wts) == IF wts # None THEN InDictAlpha ELSE alpha

\* build_explainer up to the loop over relevance_wts.
BE_call(text, wts, metainf, highlight_oov, with_oov) ==
    /\ ex.pc = "idle"
    /\ ex' = [pc |-> "loop", text |-> text, metainf |-> metainf,
              highlight_oov |-> highlight_oov,
              rgbac |-> OOVColor,
              alpha |-> IF highlight_oov THEN OOVAlphaHighlighted
                        ELSE OOVAlphaPlain,
              html_str |-> Prologue(metainf),
              prologue_len |-> Len(Prologue(metainf)),
              rest_text |-> text,
              relevance_wts |-> relevance_wt_assigner(text, wts, with_oov),
              i |-> 1,
              file |-> None]
    /\ UNCHANGED <<eps, attempts, instances, last_call, ig, wcs, nb>>

\* One iteration of `for word, wts in relevance_wts`.
BE_iter ==
    /\ ex.pc = "loop"
    /\ ex.i <= Len(ex.relevance_wts)
    /\ LET word == ex.relevance_wts[ex.i].word
           wts == ex.relevance_wts[ex.i].wts
           rgbac == ColorFor(ex.rgbac, wts)
           alpha == AlphaFor(ex.alpha, wts)
       IN  ex' = [ex EXCEPT
                    !.html_str = @ \o CharItems(TextBefore(ex.rest_text, word))
                                   \o <<SpanItem(rgbac, alpha, word)>>,
                    !.rest_text = TextAfter(@, word),
                    !.rgbac = rgbac,
                    !.alpha = alpha,
                    !.i = @ + 1]
    /\ UNCHANGED <<eps, attempts, instances, last_call, ig, wcs, nb>>

\* After the loop: the rest of the text, the closing tags, the file write.
BE_write ==
    /\ ex.pc = "loop"
    /\ ex.i > Len(ex.relevance_wts)
    /\ LET html_str == ex.html_str \o CharItems(ex.rest_text) \o <<FooterItem>>
       IN  ex' = [ex EXCEPT !.pc = "done", !.html_str = html_str,
                            !.file = Some(html_str)]
    /\ UNCHANGED <<eps, attempts, instances, last_call, ig, wcs, nb>>

InitBE ==
    /\ LRPIdle
    /\ ig = IGIdle
    /\ ex = ExIdle
    /\ wcs = WcIdle
    /\ nb = NbIdle

NextBE ==
    \/ \E text \in TextValues, wts \in FeatureWtsValues,
          metainf \in MetainfValues, highlight_oov \in BOOLEAN,
          with_oov \in BOOLEAN :
            BE_call(text, wts, metainf, highlight_oov, with_oov)
    \/ BE_iter
    \/ BE_write

SpecBE == InitBE /\ [][NextBE]_vars

BERunning == ex.pc \in {"loop", "done"}

\* The scan cursor: how much of the text has been cut off rest_text.
Cursor(e) == Len(e.text) - Len(e.rest_text)

\* The document after its opening (header and metainf) and without its
\* closing tags, with the span markup removed.
RECURSIVE StripMarkup(_)
StripMarkup(items) ==
    IF items = <<>> THEN <<>>
    ELSE LET it == Head(items)
         IN  (IF it.t = "char" THEN <<it.c>>
              ELSE IF it.t = "span" THEN it.word
              ELSE <<>>) \o StripMarkup(Tail(items))

BodyText == StripMarkup(SubSeq(ex.html_str, ex.prologue_len + 1, Len(ex.html_str)))

C5_TextPreserved ==
    BERunning =>
      /\ Cursor(ex) \in 0..Len(ex.text)
      /\ ex.rest_text = SubSeq(ex.text, Cursor(ex) + 1, Len(ex.text))
      /\ ex.pc = "loop" => BodyText = SubSeq(ex.text, 1, Cursor(ex))
      /\ ex.pc = "done" => BodyText = ex.text /\ ex.file = Some(ex.html_str)

C5_CursorForward ==
    (BERunning /\ ex'.pc \in {"loop", "done"}) => Cursor(ex') >= Cursor(ex)

\* C5: while build_explainer processes its (word, weight) pairs the scan
\* cursor into the text only moves forward, and the body of the written
\* document with the span markup removed is the original text: every
\* character is emitted exactly once, in order, as plain text or as a
\* highlighted word.
C5_ScanConsumesText == [](C5_TextPreserved) /\ [][C5_CursorForward]_vars

C5_Witness ==
    /\ ex.pc = "done"
    /\ ex.text = <<"b", "a", " ", "a">>
    /\ Len(ex.relevance_wts) = 2
    /\ ex.relevance_wts[1].word = <<"b", "a">> /\ ex.relevance_wts[1].wts = None
    /\ ex.relevance_wts[2].word = <<"a">> /\ ex.relevance_wts[2].wts = Some(8)
    /\ BodyText = ex.text

\* The highlighted words of the document, in order: the k-th belongs to the
\* k-th pair of relevance_wts.
IsSpan(it) == it.t = "span"
SpansOf(html_str) == SelectSeq(html_str, IsSpan)

\* C6: whatever pairs were processed before it, every word of weight None
\* is rendered with the default colour (0.1, 0.1, 1.0) and opacity 0.2
\* (highlight_oov) or 0.0, and every weighted word with opacity 0.5 and a
\* colour from the negative colormap at |weight| when weight < 0, from the
\* positive colormap at weight otherwise.
C6_WordColors ==
    BERunning =>
      \A k \in 1..Len(SpansOf(ex.html_str)) :
        LET sp == SpansOf(ex.html_str)[k]
            w == ex.relevance_wts[k].wts
        IN  IF w = None
            THEN /\ sp.rgbac = [cmap |-> "fixed", at |-> <<1, 1, 10>>]
                 /\ sp.alpha = (IF ex.highlight_oov THEN 2 ELSE 0)
            ELSE /\ sp.alpha = 5
                 /\ sp.rgbac = (IF w[1] < 0 THEN [cmap |-> "Blues", at |-> <<-w[1]>>]
                                ELSE [cmap |-> "Reds", at |-> <<w[1]>>])

IsHeader(it) == it.t = "header"

\* C10: the document holds the opening body/div header exactly once, followed
\* by metainf and a blank line when metainf is not empty and by nothing extra
\* when it is empty, before the highlighted text begins.
C10_HeaderOnce ==
    BERunning =>
      /\ Len(SelectSeq(ex.html_str, IsHeader)) = 1
      /\ SubSeq(ex.html_str, 1, ex.prologue_len) =
            <<[t |-> "header"]>>
              \o (IF ex.metainf # <<>>
                  THEN CharItems(ex.metainf \o <<"\n", "\n">>)
                  ELSE <<>>)

(***************************************************************************)
(* generate_word_cloud                                                     *)
(***************************************************************************)
CloudWords == {"good", "bad", "neutral"}
\* Weights and thresholds in units of 1e-9: -0.5, 0, 0.1, 0.9.
CloudWeightValues == {-500000000, 0, 100000000, 900000000}
ThresholdValues == {0, 100000000, 500000000}
ColorNamePairs == {<<"blue", "red">>, <<"red", "blue">>, <<"red", "red">>}
MaskFilenameValues == {None, Some("mask.png")}

\* The dictionaries {word: weight} of at most n words, as the sequence of
\* their items in insertion order.
RECURSIVE DictsUpTo(_)
DictsUpTo(n) ==
    IF n = 0 THEN {<<>>}
    ELSE LET shorter == DictsUpTo(n - 1)
         IN  shorter \cup
             {Append(d, [word |-> w, wt |-> x]) :
                d \in {u \in shorter : Len(u) = n - 1},
                w \in CloudWords, x \in CloudWeightValues}

HasDistinctWords(d) ==
    \A i, j \in 1..Len(d) : d[i].word = d[j].word => i = j

\* The mappings generate_word_cloud is given: at least one word.
RelevantFeatureWtsValues ==
    {d \in DictsUpTo(MaxCloudWords) : d # <<>> /\ HasDistinctWords(d)}

\* relevant_feature_wts[word] = 0.000000001, in units of 1e-9
ZeroWeightFix == 1

\* color_mapping = {pos_clr_name: [], neg_clr_name: []}: the keys in insertion
\* order, one key when the two names are equal.
EmptyColorMapping(pos_clr_name, neg_clr_name) ==
    IF pos_clr_name = neg_clr_name
    THEN <<[color |-> pos_clr_name, words |-> <<>>]>>
    ELSE <<[color |-> pos_clr_name, words |-> <<>>],
           [color |-> neg_clr_name, words |-> <<>>]>>

\* neg_clr_name if wt < threshold else pos_clr_name
BucketKeyMut(wt, threshold, pos_clr_name, neg_clr_name) ==
    IF wt <= threshold THEN neg_clr_name ELSE pos_clr_name
BucketKey(wt, threshold, pos_clr_name, neg_clr_name) ==
    IF wt < threshold THEN neg_clr_name ELSE pos_clr_name

\* color_mapping[key].append(value)
ColorMapAppend(color_mapping, key, value) ==
    [k \in DOMAIN color_mapping |->
        IF color_mapping[k].color = key
        THEN [color_mapping[k] EXCEPT !.words = Append(@, value)]
        ELSE color_mapping[k]]

SeqToSet(q) == {q[i] : i \in DOMAIN q}

\* _GroupedColorFunc.__init__: (colour, set(words)) per key of color_to_words.
GroupedColorFunc(color_to_words, default_color) ==
    [color_func_to_words |->
        [k \in DOMAIN color_to_words |->
            [color |-> color_to_words[k].color,
             words |-> SeqToSet(color_to_words[k].words)]],
     default_color |-> default_color]

\* _GroupedColorFunc.get_color_func: the colour of the first group holding the
\* word, the default colour when no group does.
GetColorFunc(f, word) ==
    LET hits == {k \in DOMAIN f.color_func_to_words :
                    word \in f.color_func_to_words[k].words}
    IN  IF hits = {} THEN f.default_color
        ELSE f.color_func_to_words[CHOOSE k \in hits : \A j \in hits : k <= j].color

\* generate_word_cloud up to the loop over relevant_feature_wts.items().
WC_call(wts, names, threshold, save_to_file, mask_filename) ==
    /\ wcs.pc = "idle"
    /\ wcs' = [pc |-> "loop", input_wts |-> wts, relevant_feature_wts |-> wts,
               pos_clr_name |-> names[1], neg_clr_name |-> names[2],
               threshold |-> threshold, save_to_file |-> save_to_file,
               mask_filename |-> mask_filename,
               color_mapping |-> EmptyColorMapping(names[1], names[2]),
               j |-> 1, opened |-> <<>>, returned |-> None, saved |-> FALSE]
    /\ UNCHANGED <<eps, attempts, instances, last_call, ig, ex, nb>>

\* One iteration of `for word, wt in relevant_feature_wts.items()`.
WC_iter ==
    /\ wcs.pc = "loop"
    /\ wcs.j <= Len(wcs.relevant_feature_wts)
    /\ LET word == wcs.relevant_feature_wts[wcs.j].word
           wt == wcs.relevant_feature_wts[wcs.j].wt
       IN  wcs' = [wcs EXCEPT
                     !.color_mapping =
                        ColorMapAppend(@, BucketKey(wt, wcs.threshold,
                                                    wcs.pos_clr_name,
                                                    wcs.neg_clr_name), word),
                     !.relevant_feature_wts[wcs.j].wt =
                        IF wt = 0 THEN ZeroWeightFix ELSE @,
                     !.j = @ + 1]
    /\ UNCHANGED <<eps, attempts, instances, last_call, ig, ex, nb>>

\* default_color = 'yellow'; grouped_color_func = _GroupedColorFunc(...)
WC_group ==
    /\ wcs.pc = "loop"
    /\ wcs.j > Len(wcs.relevant_feature_wts)
    /\ wcs' = [wcs EXCEPT !.pc = "grouped"] @@
              [grouped_color_func |-> GroupedColorFunc(wcs.color_mapping, "yellow")]
    /\ UNCHANGED <<eps, attempts, instances, last_call, ig, ex, nb>>

\* im = Image.open(mask_filename), called whatever mask_filename is: with
\* None it raises and generate_word_cloud ends there. Otherwise the mask is
\* the image's array, the cloud is generated, saved on request and returned.
WC_render ==
    /\ wcs.pc = "grouped"
    /\ IF wcs.mask_filename = None
       THEN wcs' = [wcs EXCEPT !.pc = "raised",
                               !.opened = Append(@, wcs.mask_filename)]
       ELSE wcs' = [wcs EXCEPT
                      !.pc = "done",
                      !.opened = Append(@, wcs.mask_filename),
                      !.saved = wcs.save_to_file,
                      !.returned =
                         Some([max_words |-> Len(wcs.relevant_feature_wts),
                               mask |-> wcs.mask_filename,
                               frequencies |-> wcs.relevant_feature_wts])]
    /\ UNCHANGED <<eps, attempts, instances, last_call, ig, ex, nb>>

InitWC ==
    /\ LRPIdle
    /\ ig = IGIdle
    /\ ex = ExIdle
    /\ wcs = WcIdle
    /\ nb = NbIdle

NextWC ==
    \/ \E wts \in RelevantFeatureWtsValues, names \in ColorNamePairs,
          threshold \in ThresholdValues, save_to_file \in BOOLEAN,
          mask_filename \in MaskFilenameValues :
            WC_call(wts, names, threshold, save_to_file, mask_filename)
    \/ WC_iter
    \/ WC_group
    \/ WC_render

SpecWC == InitWC /\ [][NextWC]_vars

WCGrouped == wcs.pc \in {"grouped", "raised", "done"}

BucketOf(color) ==
    UNION {SeqToSet(wcs.color_mapping[k].words) :
             k \in {i \in DOMAIN wcs.color_mapping :
                      wcs.color_mapping[i].color = color}}

\* C7: with distinct positive and negative colour names every word of the
\* mapping is in exactly one bucket, the negative one iff its weight is below
\* the threshold, so the grouped colour function gives the negative colour
\* to exactly the words below the threshold, the positive colour to all
\* others and the default colour to none.
C7_Bucketing ==
    (WCGrouped /\ wcs.pos_clr_name # wcs.neg_clr_name) =>
      \A i \in 1..Len(wcs.input_wts) :
        LET word == wcs.input_wts[i].word
            below == wcs.input_wts[i].wt < wcs.threshold
            color == GetColorFunc(wcs.grouped_color_func, word)
        IN  /\ word \in BucketOf(wcs.neg_clr_name) <=> below
            /\ word \in BucketOf(wcs.pos_clr_name) <=> ~below
            /\ color = wcs.neg_clr_name <=> below
            /\ color = wcs.pos_clr_name <=> ~below
            /\ color # wcs.grouped_color_func.default_color

C7_Witness ==
    /\ wcs.pc = "done"
    /\ wcs.pos_clr_name = "blue" /\ wcs.neg_clr_name = "red"
    /\ wcs.threshold = 100000000
    /\ wcs.input_wts = <<[word |-> "neutral", wt |-> 0],
                          [word |-> "good", wt |-> 100000000]>>
    /\ GetColorFunc(wcs.grouped_color_func, "neutral") = "red"
    /\ GetColorFunc(wcs.grouped_color_func, "good") = "blue"

\* C8: loading a mask image is optional: with mask_filename None no image is
\* opened, the cloud is generated without a mask and the call completes and
\* returns the renderer object; an image is opened only when mask_filename
\* is given.
C8_MaskOptional ==
    /\ \A i \in DOMAIN (IF wcs.pc = "idle" THEN <<>> ELSE wcs.opened) :
          wcs.opened[i] # None
    /\ (wcs.pc # "idle" /\ wcs.mask_filename = None) => wcs.pc # "raised"

(***************************************************************************)
(* show_in_notebook                                                        *)
(***************************************************************************)
\* s.split(sep) for a one-character separator.
RECURSIVE PySplit(_, _)
PySplit(s, sep) ==
    LET cuts == {i \in 1..Len(s) : s[i] = sep}
    IN  IF cuts = {} THEN <<s>>
        ELSE LET i == CHOOSE c \in cuts : \A d \in cuts : c <= d
             IN  <<SubSeq(s, 1, i - 1)>> \o PySplit(SubSeq(s, i + 1, Len(s)), sep)

Last(q) == q[Len(q)]

\* file_name_with_type.split('/')[-1].split('.')[-1]
FileType(file_name_with_type) ==
    Last(PySplit(Last(PySplit(file_name_with_type, "/")), "."))

\* choice_dict: the renderer of a file type, "KeyError" for a missing key.
ChoiceDictMut(file_type) ==
    CASE file_type = <<"h", "t", "m", "l">> -> "_render_html"
      [] file_type = <<"p", "n", "g">> -> "_render_image"
      [] file_type = <<"j", "p", "e", "g">> -> "_render_image"
      [] OTHER -> "KeyError"
ChoiceDict(file_type) ==
    CASE file_type = <<"h", "t", "m", "l">> -> "_render_html"
      [] file_type = <<"p", "n", "g">> -> "_render_image"
      [] file_type = <<"j", "p", "e", "g">> -> "_render_image"
      [] file_type = <<"j", "p", "g">> -> "_render_image"
      [] OTHER -> "KeyError"

DirValues == {<<>>, <<"d", "/">>, <<"d", ".", "p", "n", "g", "/">>, <<"/">>}
StemValues == {<<>>, <<"f">>, <<"f", ".", "j", "p", "g">>, <<"f", ".">>}
DotValues == {<<>>, <<".">>}
ExtValues == {<<>>, <<"h", "t", "m", "l">>, <<"p", "n", "g">>,
              <<"j", "p", "e", "g">>, <<"j", "p", "g">>, <<"x", "y", "z">>,
              <<"P", "N", "G">>, <<"h", "t", "m">>}
FileNameValues ==
    {d \o st \o dot \o e :
        d \in DirValues, st \in StemValues, dot \in DotValues, e \in ExtValues}

\* show_in_notebook(file_name_with_type)
show_in_notebook(file_name_with_type) ==
    /\ nb.pc = "idle"
    /\ LET file_type == FileType(file_name_with_type)
           choice == ChoiceDict(file_type)
       IN  nb' = [pc |-> "returned",
                  file_name_with_type |-> file_name_with_type,
                  outcome |-> IF choice = "KeyError" THEN "KeyError"
                              ELSE IF choice = "_render_html" THEN "HTML"
                              ELSE "Image",
                  renderer_calls |->
                      IF choice = "KeyError" THEN <<>>
                      ELSE <<[renderer |-> choice, arg |-> file_name_with_type]>>]
    /\ UNCHANGED <<eps, attempts, instances, last_call, ig, ex, wcs>>

InitNB ==
    /\ LRPIdle
    /\ ig = IGIdle
    /\ ex = ExIdle
    /\ wcs = WcIdle
    /\ nb = NbIdle

NextNB == \E f \in FileNameValues : show_in_notebook(f)

SpecNB == InitNB /\ [][NextNB]_vars

\* The text of s after its last c; all of s when it holds no c.
AfterLast(s, c) ==
    LET at == {i \in 1..Len(s) : s[i] = c}
    IN  IF at = {} THEN s
        ELSE SubSeq(s, (CHOOSE i \in at : \A j \in at : j <= i) + 1, Len(s))

Contains(s, c) == \E i \in 1..Len(s) : s[i] = c

\* What a dispatch on the key must give: html to the HTML renderer, png,
\* jpeg and jpg to the image renderer, a lookup error and no renderer call
\* for anything else.
DispatchedOn(key) ==
    IF key = <<"h", "t", "m", "l">>
    THEN /\ nb.outcome = "HTML"
         /\ nb.renderer_calls =
              <<[renderer |-> "_render_html", arg |-> nb.file_name_with_type]>>
    ELSE IF key \in {<<"p", "n", "g">>, <<"j", "p", "e", "g">>, <<"j", "p", "g">>}
    THEN /\ nb.outcome = "Image"
         /\ nb.renderer_calls =
              <<[renderer |-> "_render_image", arg |-> nb.file_name_with_type]>>
    ELSE /\ nb.outcome = "KeyError"
         /\ nb.renderer_calls = <<>>

FailedLookup == nb.outcome = "KeyError" /\ nb.renderer_calls = <<>>

\* C9 as stated: show_in_notebook dispatches only on the text after the last
\* '.' of the last '/'-separated component, and a name with no '.' fails with
\* a lookup error without calling a renderer.
C9_DispatchOnExtension ==
    nb.pc = "returned" =>
      LET name == AfterLast(nb.file_name_with_type, "/")
      IN  IF Contains(name, ".") THEN DispatchedOn(AfterLast(name, "."))
          ELSE FailedLookup

\* C9 as amended: show_in_notebook dispatches on the text after the last '.'
\* of the last '/'-separated component, or on the whole component when it
\* holds no '.': html goes to the HTML renderer, png, jpeg and jpg to the
\* image renderer, every other key fails with a lookup error and no renderer
\* call (so a name with no '.' fails unless it is itself one of the keys).
C9_DispatchOnLastPart ==
    nb.pc = "returned" =>
      LET name == AfterLast(nb.file_name_with_type, "/")
      IN  DispatchedOn(IF Contains(name, ".") THEN AfterLast(name, ".") ELSE name)

C9_Witness ==
    /\ nb.pc = "returned"
    /\ nb.file_name_with_type = <<"d", ".", "p", "n", "g", "/", "f", ".", "j", "p", "g">>
    /\ nb.outcome = "Image"

====
